---- MODULE Spec2Model ----
(***************************************************************************)
(* Model of the gst-manager daemon: the instance supervisor                *)
(* (backend/instances.py), its store (backend/history.py), the bus facade  *)
(* (backend/api.py) and the auto-instance controller                       *)
(* (backend/auto_instance.py).                                             *)
(*                                                                         *)
(* The daemon is one asyncio event loop.  A coroutine runs without         *)
(* interruption until it reaches an await that really suspends: spawning   *)
(* a child, waiting for a child to exit, sleeping.  Each action below is   *)
(* one such uninterrupted stretch of code.  The store's coroutines         *)
(* (history.py) do synchronous file I/O and never suspend, and the status *)
(* listener the daemon registers itself (api.py:97-99) does not suspend    *)
(* either, so saves, deletes and its notifications are part of the stretch *)
(* that calls them.  Listeners registered later through                    *)
(* add_status_callback may suspend (AddStatusCallback, ListenerReturns).   *)
(***************************************************************************)
EXTENDS Integers, Sequences, FiniteSets, TLC

\* ------------------------------------------------------------------ bounds
MaxIds == 3          \* instance ids that can ever be allocated
MaxInstances == 2    \* instances bus clients keep in the table at a time
MaxChildren == 2     \* child processes that can ever be spawned
MaxClock == 2        \* distinct clock seconds (timestamps 0..MaxClock)
MaxLog == 4          \* notifications recorded per instance
MaxListeners == 3    \* status listeners that can be registered
MaxEvaluations == 3  \* runs of _evaluate_passthrough_state
MaxReports == 4      \* status changes the monitor hands to its callbacks
\* HistoryManager.max_history_files (history.py:21, default 100), scaled down.
max_history_files == 2

Ids == 1..MaxIds
Children == 1..MaxChildren
None == 0

\* ------------------------------------------------------- program constants
\* RecoveryConfig.max_retries default
DefaultMaxRetries == 3

TRANSIENT_ERRORS ==
    {"connection refused", "connection reset", "timeout", "buffer underrun",
     "temporary failure", "resource temporarily unavailable"}

FATAL_ERRORS ==
    {"device not found", "no such file", "permission denied", "no element",
     "invalid pipeline", "encoder failure"}

\* A child's error text is the set of fragments it contains; NoMessage is
\* error_message = None.  {"Exit code"} is the text built at
\* instances.py:303 for a child that wrote nothing to stderr.
NoMessage == {}
Messages ==
    {{"Exit code"}, {"Connection refused"}, {"No such file"},
     {"timeout", "No such file"}}

\* str.lower() on the fragments that occur in Messages.
Lower(f) ==
    CASE f = "No such file" -> "no such file"
      [] f = "Connection refused" -> "connection refused"
      [] f = "Exit code" -> "exit code"
      [] OTHER -> f

LowerText(error) == {Lower(f) : f \in error}

\* any(t in error.lower() for t in TRANSIENT_ERRORS)
is_transient(error) == \E t \in TRANSIENT_ERRORS : t \in LowerText(error)

\* any(f in error.lower() for f in FATAL_ERRORS)
is_fatal(error) == \E f \in FATAL_ERRORS : f \in LowerText(error)

\* Return codes: 0, a failure, and the code of a child ended by SIGKILL.
KillCode == -9
ExitCodes == {0, 1}

UserPipelines == {"fakesrc ! fakesink", "videotestsrc ! fakesink"}
\* RecordingConfig.location: its default (instances.py:41) and a path a
\* client passes to toggle_recording.
DefaultLocation == "/mnt/sdcard/recordings/"
Locations == {"/mnt/x.ts"}
AutoName == "Auto HDMI Capture"

\* ------------------------------------------------------------------- state
VARIABLES
    instances,   \* InstanceManager.instances: id -> Instance (NoInstance if absent)
    processes,   \* InstanceManager.processes: id -> child (None if absent)
    disk,        \* the store: id -> current.json content (NoRecord if absent)
    children,    \* child processes and the coroutine attached to each
    stops,       \* stop_instance coroutines waiting for a child to exit
    nextId,      \* next fresh uuid
    nextChild,   \* next process to spawn
    notified,    \* per id, the statuses delivered to the first status listener
    status_callbacks, \* InstanceManager.status_callbacks: the listeners' kinds
    heard,       \* per id, the statuses delivered behind a suspending listener
    halting,     \* the stop_all call: its phase and the ids it found running
    history,     \* the store: id -> history/ directory, newest mtime first
    result,      \* outcome of the bus call or handler run by the last step
    config,      \* AutoInstanceManager.config
    instance_id, \* AutoInstanceManager.instance_id
    blob,        \* the controller's file (CONFIG_FILE)
    last_status, \* HdmiMonitor.last_status
    monitor,     \* _monitor_loop: polling, or inside _handle_status_change
    reported,    \* HdmiSignalChanged signals emitted so far
    rx_stable,   \* EventManager._rx_stable_time is not None
    tx_status,   \* EventManager._tx_status
    tx_check,    \* EventManager._tx_check_task: none | pending | cancelled | done
    last_passthrough_state, \* EventManager._last_passthrough_state
    emitted,     \* the PassthroughStateChanged signals emitted, in order
    evaluations  \* runs of _evaluate_passthrough_state so far

events == <<last_status, monitor, reported, rx_stable, tx_status, tx_check, last_passthrough_state,
            emitted, evaluations>>

vars == <<instances, processes, disk, children, stops, nextId, nextChild,
          notified, status_callbacks, heard, halting, history, result,
          config, instance_id, blob, events>>

supervisor == <<instances, processes, disk, children, stops, nextId,
                nextChild, notified, status_callbacks, heard, halting,
                history>>
controller == <<config, instance_id, blob>>

NoInstance == [status |-> "absent"]
NoRecord == [status |-> "absent"]
\* A current.json that open(..., "w") has truncated and json.dump has not
\* finished (history.py:101-102): not a JSON document.
Partial == [status |-> "partial"]
\* time.time() as stored in uptime_start (instances.py:240): some reading of
\* the clock.
Uptime == 1
NoResult == <<"none", None, "ok">>

\* AutoInstanceConfig (auto_instance.py:27-55), reduced to the field the
\* controller branches on and the two fields with a stated range; set is
\* FALSE for config = None.
DefaultRcMode == 1
DefaultSrtPort == 8888
NoConfig == [autostart_on_ready |-> FALSE, rc_mode |-> DefaultRcMode,
             srt_port |-> DefaultSrtPort, set |-> FALSE]
Configs == {[autostart_on_ready |-> a, rc_mode |-> DefaultRcMode,
             srt_port |-> DefaultSrtPort, set |-> TRUE] : a \in BOOLEAN}
\* AutoInstanceManager.DEFAULT_CONFIG (auto_instance.py:167)
DEFAULT_CONFIG == [autostart_on_ready |-> TRUE, rc_mode |-> DefaultRcMode,
                   srt_port |-> DefaultSrtPort, set |-> TRUE]
\* Configurations a bus client sends with SetAutoInstanceConfig: rc_mode and
\* srt_port are whatever the JSON text holds (api.py:285-287); 7 is no rate
\* control mode of the encoder, 0 and 65536 are no port numbers.
Requests ==
    {[autostart_on_ready |-> TRUE, rc_mode |-> r, srt_port |-> p,
      set |-> TRUE] : r \in {DefaultRcMode, 7}, p \in {DefaultSrtPort, 0, 65536}}
NoBlob == [instance_id |-> None, config |-> NoConfig, exists |-> FALSE]

Present(i) == i \in Ids /\ instances[i].status # "absent"

\* Bus clients create or import while the table has room.
HasRoom == Cardinality({i \in Ids : Present(i)}) < MaxInstances

\* Instance(...) as create_instance builds it (instances.py:163-169, defaults
\* of the dataclass at 46-63).
NewInstance(name, pipeline, timestamp) ==
    [name |-> name, pipeline |-> pipeline, status |-> "stopped", pid |-> None,
     auto_restart |-> TRUE, max_retries |-> DefaultMaxRetries,
     retry_count |-> 0, error_message |-> NoMessage,
     created_at |-> timestamp, modified_at |-> timestamp,
     uptime_start |-> None, recording_active |-> FALSE,
     location |-> DefaultLocation, instance_type |-> "manual"]

\* Instance.to_dict: asdict() of the dataclass fields; instance_type is not a
\* field of the dataclass, so it is not serialised.
to_dict(inst) ==
    [name |-> inst.name, pipeline |-> inst.pipeline, status |-> inst.status,
     pid |-> inst.pid, auto_restart |-> inst.auto_restart,
     max_retries |-> inst.max_retries, retry_count |-> inst.retry_count,
     error_message |-> inst.error_message, created_at |-> inst.created_at,
     modified_at |-> inst.modified_at, uptime_start |-> inst.uptime_start,
     recording_active |-> inst.recording_active,
     location |-> inst.location]

\* Instance.from_dict: every serialised field is taken as it is.
from_dict(rec) ==
    [name |-> rec.name, pipeline |-> rec.pipeline, status |-> rec.status,
     pid |-> rec.pid, auto_restart |-> rec.auto_restart,
     max_retries |-> rec.max_retries, retry_count |-> rec.retry_count,
     error_message |-> rec.error_message, created_at |-> rec.created_at,
     modified_at |-> rec.modified_at, uptime_start |-> rec.uptime_start,
     recording_active |-> rec.recording_active,
     location |-> rec.location, instance_type |-> "manual"]

\* A child process and the coroutine that owns it.
\*   state: unused | spawning (create_subprocess_exec pending) | alive |
\*          exited (return code known to the loop) | failed (spawn raised)
\*   mon:   none | notify (start_instance suspended in a listener, the
\*          reaper not yet created) | wait (_monitor_process in
\*          communicate) | sleep (retry delay) | start (inside the retry's
\*          start_instance) | done
\*   retry_of: the child whose reaper issued this start, or None
\*   killed: the child was ended by process.kill()
\*   stopped: a stop_instance that waited for this child has returned
NoChild ==
    [owner |-> None, state |-> "unused", mon |-> "none", retry_of |-> None,
     killed |-> FALSE, stopped |-> FALSE]

\* A child whose process has ended and whose coroutines have all returned
\* plays no further part; its record is forgotten.
Finished(ch, c, ss) ==
    /\ ch.state \in {"exited", "failed"}
    /\ ch.mon \in {"none", "done"}
    /\ \A s \in ss : s.c # c

Settle(chs, ss) ==
    [c \in DOMAIN chs |-> IF Finished(chs[c], c, ss) THEN NoChild ELSE chs[c]]

\* time.strftime(...): a timestamp not earlier than any already written.
LatestStamp ==
    LET S == {instances[i].modified_at : i \in {j \in Ids : Present(j)}}
    IN  IF S = {} THEN 0 ELSE CHOOSE m \in S : \A n \in S : n <= m
Now == {t \in 0..MaxClock : t >= LatestStamp}

\* _notify_status_change (instances.py:134-140): the listener receives
\* (id, status).  A log longer than MaxLog is replaced by Overflow.
Overflow == <<"overflow">>
Notify(log, i, seq) ==
    [log EXCEPT ![i] = IF @ # Overflow /\ Len(@) + Len(seq) <= MaxLog
                       THEN @ \o seq ELSE Overflow]

\* Status listeners.  "signal" is the bus facade's listener (api.py:97-99),
\* which emits InstanceStatusChanged and returns.  add_status_callback
\* (instances.py:130-132) accepts any coroutine function: a "quick" listener
\* returns without suspending, a "slow" one suspends when it is told
\* "running" and returns at once for any other status.
ListenerKinds == {"slow", "quick"}

\* Some registered listener suspends.
Suspends ==
    \E k \in 1..Len(status_callbacks) : status_callbacks[k] = "slow"

\* Some listener is registered behind one that suspends.
BehindSlow ==
    \E j, k \in 1..Len(status_callbacks) :
        j < k /\ status_callbacks[j] = "slow"

\* _notify_status_change (instances.py:134-140) awaits the listeners one
\* after the other: those behind a suspending listener are told once it has
\* returned.  Hear is the delivery to them.
Told(log, i, seq) == IF BehindSlow THEN Notify(log, i, seq) ELSE log
Hear(i, seq) == Told(heard, i, seq)

\* The stop_all call (instances.py:388-395).
\*   phase:   idle | waiting (suspended in a stop_instance) | returned |
\*            raised (a stop_instance raised, line 353)
\*   running: the ids found running at lines 390-393
\*   restarted: those of them a client has asked to start since
Idle == [phase |-> "idle", running |-> {}, restarted |-> {}]

\* --------------------------------------------------------------- the store

NoHistory == <<>>

\* A cleanup that unlinks from the wrong end of the sorted list.
cleanup_newest(hist) ==
    IF Len(hist) > max_history_files
    THEN SubSeq(hist, Len(hist) - max_history_files + 1, Len(hist))
    ELSE hist

\* _cleanup_history (history.py:134-152): the files sorted by mtime, newest
\* first; those beyond max_history_files are unlinked.
cleanup_history(hist) ==
    IF Len(hist) > max_history_files
    THEN SubSeq(hist, 1, max_history_files)
    ELSE hist

\* _backup_config (history.py:109-132): current.json is copied to
\* history/<timestamp>.json with shutil.copy2, which replaces a file of that
\* name and gives the copy the mtime of current.json, the latest mtime in the
\* directory.
backup_config(hist, current, timestamp) ==
    cleanup_history(
        <<[file |-> timestamp, content |-> current]>>
        \o SelectSeq(hist, LAMBDA h : h.file # timestamp))

\* save_instance (history.py:89-97): what it does to the history directory
\* before it writes current.json.
save_instance(current, hist, timestamp) ==
    IF current # NoRecord THEN backup_config(hist, current, timestamp)
    ELSE hist

\* get_instance_history (history.py:177-208): the snapshots that parse,
\* newest mtime first.
get_instance_history(i) ==
    LET readable == SelectSeq(history[i], LAMBDA h : h.content # Partial)
    IN  [k \in 1..Len(readable) |-> readable[k].content]

\* ------------------------------------------------------------ the supervisor

\* create_instance (instances.py:150-175) with save_instance
\* (history.py:73-107), reached through CreateInstance.
CreateInstance(pipeline) ==
    /\ nextId <= MaxIds
    /\ HasRoom
    /\ \E timestamp \in Now :
        LET inst == NewInstance("t", pipeline, timestamp)
        IN  /\ instances' = [instances EXCEPT ![nextId] = inst]
            /\ history' = [history EXCEPT ![nextId] =
                              save_instance(disk[nextId], @, timestamp)]
            /\ disk' = [disk EXCEPT ![nextId] = to_dict(inst)]
    /\ nextId' = nextId + 1
    /\ result' = <<"create", nextId, "ok">>
    /\ UNCHANGED <<processes, children, stops, nextChild, notified>>
    /\ UNCHANGED <<status_callbacks, heard, halting>>
    /\ UNCHANGED controller
    /\ UNCHANGED events

\* A supervisor that deletes whatever the status.
DeleteNeverForbidden(inst) == FALSE

\* The guard of delete_instance (instances.py:193).
DeleteForbidden(inst) == inst.status = "running"

\* delete_instance (instances.py:177-200) with HistoryManager.delete_instance
\* (history.py:154-175): the table and the store it leaves, and its outcome.
delete_instance(insts, dsk, i) ==
    IF ~(i \in Ids /\ insts[i].status # "absent")
    THEN [instances |-> insts, disk |-> dsk, outcome |-> "InstanceNotFound"]
    ELSE IF DeleteForbidden(insts[i])
    THEN [instances |-> insts, disk |-> dsk, outcome |-> "InstanceRunning"]
    ELSE [instances |-> [insts EXCEPT ![i] = NoInstance],
          disk |-> [dsk EXCEPT ![i] = NoRecord], outcome |-> "ok"]

\* shutil.rmtree of the instance directory (history.py:170) takes the
\* history with it.
rmtree(hist, i, outcome) ==
    IF outcome = "ok" THEN [hist EXCEPT ![i] = NoHistory] ELSE hist

\* DeleteInstance (api.py:119-129) for an id in the table; a missing id is
\* answered with InstanceNotFound and changes nothing.
DeleteInstance(i) ==
    LET d == delete_instance(instances, disk, i)
    IN  /\ Present(i)
        /\ instances' = d.instances
        /\ disk' = d.disk
        /\ history' = rmtree(history, i, d.outcome)
        /\ result' = <<"delete", i, d.outcome>>
        /\ UNCHANGED <<processes, children, stops, nextId, nextChild, notified>>
        /\ UNCHANGED <<status_callbacks, heard, halting>>
        /\ UNCHANGED controller
        /\ UNCHANGED events

\* toggle_recording (instances.py:452-489): refused unless the instance is
\* running; it sets recording_active and, when a location is given (None and
\* the empty string both count as not given, line 480), recording.location,
\* and returns without saving.
ToggleRecording(i, enable, location) ==
    /\ Present(i)
    /\ IF instances[i].status # "running"
       THEN /\ result' = <<"toggle", i, "InstanceNotRunning">>
            /\ UNCHANGED instances
       ELSE /\ instances' = [instances EXCEPT
                               ![i].recording_active = enable,
                               ![i].location = IF location # ""
                                               THEN location ELSE @]
            /\ result' = <<"toggle", i, "ok">>
    /\ UNCHANGED <<processes, disk, children, stops, nextId, nextChild>>
    /\ UNCHANGED <<notified, status_callbacks, heard, halting, history>>
    /\ UNCHANGED controller
    /\ UNCHANGED events

\* A supervisor that edits whatever the status.
UpdateNeverForbidden(inst) == FALSE

\* The guard of update_pipeline (instances.py:442).
UpdateForbidden(inst) == inst.status = "running"

\* update_pipeline (instances.py:428-450), reached through UpdatePipeline
\* (api.py:156-166), for an id in the table; a missing id is answered with
\* InstanceNotFound and changes nothing.
UpdatePipeline(i, pipeline) ==
    /\ Present(i)
    /\ IF UpdateForbidden(instances[i])
       THEN /\ result' = <<"update", i, "InstanceRunning">>
            /\ UNCHANGED <<instances, disk, history>>
       ELSE \E timestamp \in Now :
            LET inst == [instances[i] EXCEPT !.pipeline = pipeline,
                                             !.modified_at = timestamp]
            IN  /\ instances' = [instances EXCEPT ![i] = inst]
                /\ history' = [history EXCEPT ![i] =
                                  save_instance(disk[i], @, timestamp)]
                /\ disk' = [disk EXCEPT ![i] = to_dict(inst)]
                /\ result' = <<"update", i, "ok">>
    /\ UNCHANGED <<processes, children, stops, nextId, nextChild, notified>>
    /\ UNCHANGED <<status_callbacks, heard, halting>>
    /\ UNCHANGED controller
    /\ UNCHANGED events

\* update_pipeline whose save_instance meets an I/O error while it writes
\* current.json (history.py:100-107): the backup is made, the file is left
\* truncated, save_instance returns False and update_pipeline, which does
\* not look at that, returns True.
UpdatePipelineFails(i, pipeline) ==
    /\ Present(i)
    /\ ~UpdateForbidden(instances[i])
    /\ \E timestamp \in Now :
        /\ instances' = [instances EXCEPT ![i].pipeline = pipeline,
                                          ![i].modified_at = timestamp]
        /\ history' = [history EXCEPT ![i] =
                          save_instance(disk[i], @, timestamp)]
    /\ disk' = [disk EXCEPT ![i] = Partial]
    /\ result' = <<"update", i, "ok">>
    /\ UNCHANGED <<processes, children, stops, nextId, nextChild, notified>>
    /\ UNCHANGED <<status_callbacks, heard, halting>>
    /\ UNCHANGED controller
    /\ UNCHANGED events

\* add_status_callback (instances.py:130-132): a listener is registered
\* behind the facade's, before anything has been notified; at most one of
\* the listeners suspends.
AddStatusCallback(kind) ==
    /\ Len(status_callbacks) < MaxListeners
    /\ \A i \in Ids : notified[i] = <<>>
    /\ kind = "slow" => ~Suspends
    /\ status_callbacks' = Append(status_callbacks, kind)
    /\ result' = NoResult
    /\ UNCHANGED <<instances, processes, disk, children, stops, nextId,
                   nextChild, notified, heard, halting, history>>
    /\ UNCHANGED controller
    /\ UNCHANGED events

\* The early return of start_instance (instances.py:215-217).
AlreadyRunning(inst) == inst.status = "running"

\* start_instance up to the await of create_subprocess_exec
\* (instances.py:211-235): the table it leaves ...
Starting(insts, i) ==
    [insts EXCEPT ![i].status = "starting", ![i].error_message = NoMessage]

\* ... and the process being spawned, child c; retry_of is the child whose
\* reaper makes the call (None for a caller that is not a reaper).
Spawning(chs, i, c, retry_of) ==
    [d \in DOMAIN chs |->
        IF d = c THEN [NoChild EXCEPT !.owner = i, !.state = "spawning",
                                      !.retry_of = retry_of]
        ELSE IF d = retry_of THEN [chs[d] EXCEPT !.mon = "start"]
        ELSE chs[d]]

\* StartInstance (api.py:131-137): a start request of a bus client.  A missing
\* id raises at line 213 and a running instance returns at line 217.  What
\* happens to the instance after a client's start is no longer on account of
\* an earlier stop_all.
StartInstance(i) ==
    /\ Present(i)
    /\ ~AlreadyRunning(instances[i])
    /\ nextChild <= MaxChildren
    /\ instances' = Starting(instances, i)
    /\ notified' = Notify(notified, i, <<"starting">>)
    /\ heard' = Hear(i, <<"starting">>)
    /\ children' = Spawning(children, i, nextChild, None)
    /\ nextChild' = nextChild + 1
    /\ halting' = [halting EXCEPT !.restarted = @ \cup ({i} \cap halting.running)]
    /\ result' = NoResult
    /\ UNCHANGED <<processes, disk, stops, nextId, status_callbacks, history>>
    /\ UNCHANGED controller
    /\ UNCHANGED events

\* The finally clause of _monitor_process (instances.py:312-314), run by a
\* reaper when it ends: the entry of the id is removed, whichever process it
\* names.
ReaperCleanup(procs, i) == [procs EXCEPT ![i] = None]

\* The reaper p (None: no reaper) has returned.
Returned(chs, p) ==
    [d \in DOMAIN chs |-> IF d = p THEN [chs[d] EXCEPT !.mon = "done"]
                          ELSE chs[d]]

\* start_instance after create_subprocess_exec returned (instances.py:237-249).
\* The instance object is the one fetched at line 211: when the id has left
\* the table meanwhile the writes reach an object nobody reads, and the new
\* reaper returns at line 278-279, before its try block.  When the start
\* was issued by the reaper of child p, that reaper then returns from
\* _handle_error (line 335) and runs its finally clause.  With a listener
\* that suspends, the call stays in line 243 until ListenerReturns.
StartSpawned(c) ==
    LET i == children[c].owner
        p == children[c].retry_of
        there == Present(i)
    IN  /\ children[c].state = "spawning"
        /\ instances' = IF there
                        THEN [instances EXCEPT ![i].pid = c,
                                               ![i].status = "running",
                                               ![i].uptime_start = Uptime,
                                               ![i].retry_count = 0]
                        ELSE instances
        /\ notified' = Notify(notified, i, <<"running">>)
        /\ IF Suspends
           THEN /\ processes' = [processes EXCEPT ![i] = c]
                /\ children' = [children EXCEPT ![c].state = "alive",
                                                ![c].mon = "notify"]
           ELSE /\ processes' =
                      IF p # None
                      THEN ReaperCleanup([processes EXCEPT ![i] = c], i)
                      ELSE [processes EXCEPT ![i] = c]
                /\ children' = Settle(Returned(
                      [children EXCEPT
                          ![c].state = "alive",
                          ![c].mon = IF there THEN "wait" ELSE "none"],
                      p), stops)
        /\ result' = NoResult
        /\ UNCHANGED <<disk, stops, nextId, nextChild>>
        /\ UNCHANGED <<status_callbacks, heard, halting, history>>
        /\ UNCHANGED controller
        /\ UNCHANGED events

\* The suspended listener returns to _notify_status_change (line 138) in the
\* start_instance that spawned child c: the listeners behind it are told
\* "running", and start_instance goes on from line 244: the reaper of c is
\* created and looks the id up (lines 277-279), and a reaper that issued the
\* start returns and runs its finally clause.
ListenerReturns(c) ==
    LET i == children[c].owner
        p == children[c].retry_of
    IN  /\ children[c].mon = "notify"
        /\ heard' = Hear(i, <<"running">>)
        /\ processes' = IF p # None THEN ReaperCleanup(processes, i)
                        ELSE processes
        /\ children' = Settle(Returned(
               [children EXCEPT
                   ![c].mon = IF Present(i) THEN "wait" ELSE "none"],
               p), stops)
        /\ result' = NoResult
        /\ UNCHANGED <<instances, disk, stops, nextId, nextChild, notified>>
        /\ UNCHANGED <<status_callbacks, halting, history>>
        /\ UNCHANGED controller
        /\ UNCHANGED events

\* start_instance when create_subprocess_exec raises (instances.py:251-256).
StartFailed(c, error) ==
    LET i == children[c].owner
        p == children[c].retry_of
        there == Present(i)
    IN  /\ children[c].state = "spawning"
        /\ instances' = IF there
                        THEN [instances EXCEPT ![i].status = "error",
                                               ![i].error_message = error]
                        ELSE instances
        /\ notified' = Notify(notified, i, <<"error">>)
        /\ heard' = Hear(i, <<"error">>)
        /\ processes' = IF p # None THEN ReaperCleanup(processes, i)
                        ELSE processes
        /\ children' = Settle(Returned(
               [children EXCEPT ![c].state = "failed"], p), stops)
        /\ result' = NoResult
        /\ UNCHANGED <<disk, stops, nextId, nextChild>>
        /\ UNCHANGED <<status_callbacks, halting, history>>
        /\ UNCHANGED controller
        /\ UNCHANGED events

\* The child process ends by itself or on the signal of stop_instance.
ChildExit(c) ==
    /\ children[c].state = "alive"
    /\ children' = Settle([children EXCEPT ![c].state = "exited"], stops)
    /\ result' = NoResult
    /\ UNCHANGED <<instances, processes, disk, stops, nextId, nextChild,
                   notified>>
    /\ UNCHANGED <<status_callbacks, heard, halting, history>>
    /\ UNCHANGED controller
    /\ UNCHANGED events

\* A reaper that retries without counting.
RetryUnbounded(inst, error) ==
    /\ is_transient(error)
    /\ ~is_fatal(error)
    /\ inst.auto_restart

\* A reaper that retries a transient failure even when it is fatal too.
RetryDespiteFatal(inst, error) ==
    /\ is_transient(error)
    /\ inst.auto_restart
    /\ inst.retry_count < inst.max_retries

\* The retry decision of _handle_error (instances.py:323-327).
ShouldRetry(inst, error) ==
    /\ is_transient(error)
    /\ ~is_fatal(error)
    /\ inst.auto_restart
    /\ inst.retry_count < inst.max_retries

\* The return codes communicate() can report for child c.
ReturnCodes(c) == IF children[c].killed THEN {KillCode} ELSE ExitCodes

\* _monitor_process after communicate() returned (instances.py:283-314) with
\* _handle_error up to its sleep (instances.py:316-333); code and error are
\* the child's return code and the text handed to _handle_error.
MonitorExit(c, code, error) ==
    LET i == children[c].owner
    IN  /\ children[c].state = "exited"
        /\ children[c].mon = "wait"
        /\ code \in ReturnCodes(c)
        /\ IF ~Present(i)
           THEN /\ processes' = ReaperCleanup(processes, i)
                /\ children' = Settle(Returned(children, c), stops)
                /\ UNCHANGED <<instances, notified, heard>>
           ELSE IF code = 0
           THEN /\ instances' = [instances EXCEPT
                                    ![i].status = "stopped",
                                    ![i].recording_active = FALSE]
                /\ notified' = Notify(notified, i, <<"stopped">>)
                /\ heard' = Hear(i, <<"stopped">>)
                /\ processes' = ReaperCleanup(processes, i)
                /\ children' = Settle(Returned(children, c), stops)
           ELSE IF ShouldRetry(instances[i], error)
           THEN /\ instances' = [instances EXCEPT ![i].retry_count = @ + 1]
                /\ children' = [children EXCEPT ![c].mon = "sleep"]
                /\ UNCHANGED <<processes, notified, heard>>
           ELSE /\ instances' = [instances EXCEPT ![i].status = "error",
                                                  ![i].error_message = error]
                /\ notified' = Notify(notified, i, <<"error">>)
                /\ heard' = Hear(i, <<"error">>)
                /\ processes' = ReaperCleanup(processes, i)
                /\ children' = Settle(Returned(children, c), stops)
        /\ result' = NoResult
        /\ UNCHANGED <<disk, stops, nextId, nextChild>>
        /\ UNCHANGED <<status_callbacks, halting, history>>
        /\ UNCHANGED controller
        /\ UNCHANGED events

\* _handle_error after its sleep (instances.py:333-335): the reaper of child c
\* calls start_instance.  A missing id raises (line 213) and a running
\* instance returns at once (line 217); either way the reaper ends and runs
\* its finally clause.
RetryStart(c) ==
    LET i == children[c].owner
    IN  /\ children[c].mon = "sleep"
        /\ IF Present(i) /\ ~AlreadyRunning(instances[i])
           THEN /\ nextChild <= MaxChildren
                /\ instances' = Starting(instances, i)
                /\ notified' = Notify(notified, i, <<"starting">>)
                /\ heard' = Hear(i, <<"starting">>)
                /\ children' = Spawning(children, i, nextChild, c)
                /\ nextChild' = nextChild + 1
                /\ UNCHANGED processes
           ELSE /\ processes' = ReaperCleanup(processes, i)
                /\ children' = Settle(Returned(children, c), stops)
                /\ UNCHANGED <<instances, notified, heard, nextChild>>
        /\ result' = NoResult
        /\ UNCHANGED <<disk, stops, nextId>>
        /\ UNCHANGED <<status_callbacks, halting, history>>
        /\ UNCHANGED controller
        /\ UNCHANGED events

\* stop_instance from its status check to its first await
\* (instances.py:355-372).  With no process in the table, or one whose return
\* code is already known (send_signal raises ProcessLookupError, line 377),
\* nothing is awaited and the call runs to its end (lines 380-386).
StopsAtOnce(i) ==
    \/ processes[i] = None
    \/ children[processes[i]].state # "alive"

\* The end of stop_instance (instances.py:380-383).
Stopped(inst) ==
    [inst EXCEPT !.status = "stopped", !.pid = None, !.uptime_start = None]

\* A stop_instance suspended in process.wait(): the id, the process, and what
\* its caller does once it returns (cont, with the caller's local config).
Waiting(i, cont, cfg) ==
    [id |-> i, c |-> processes[i], cont |-> cont, cfg |-> cfg]

\* StopInstance (api.py:139-145) on a running instance; any other status
\* returns at line 357 with nothing changed.
StopInstance(i) ==
    /\ Present(i)
    /\ instances[i].status = "running"
    /\ IF StopsAtOnce(i)
       THEN /\ instances' = [instances EXCEPT ![i] = Stopped(@)]
            /\ notified' = Notify(notified, i, <<"stopping", "stopped">>)
            /\ heard' = Hear(i, <<"stopping", "stopped">>)
            /\ UNCHANGED stops
       ELSE /\ instances' = [instances EXCEPT ![i].status = "stopping"]
            /\ notified' = Notify(notified, i, <<"stopping">>)
            /\ heard' = Hear(i, <<"stopping">>)
            /\ stops' = stops \cup {Waiting(i, "none", NoConfig)}
    /\ result' = NoResult
    /\ UNCHANGED <<processes, disk, children, nextId, nextChild>>
    /\ UNCHANGED <<status_callbacks, halting, history>>
    /\ UNCHANGED controller
    /\ UNCHANGED events

\* The loop of stop_all (instances.py:394-395) over the ids of rest, in the
\* order of the table: each stop_instance that does not suspend runs to its
\* end; the loop stops at the first one that suspends (waiting) or that
\* raises because the id has left the table (raised, line 353).
RECURSIVE stop_each(_, _, _, _)
stop_each(insts, ntf, hrd, rest) ==
    IF rest = {}
    THEN [instances |-> insts, notified |-> ntf, heard |-> hrd,
          waiting |-> None, raised |-> FALSE]
    ELSE LET i == CHOOSE k \in rest : \A j \in rest : k <= j
         IN  IF insts[i].status = "absent"
             THEN [instances |-> insts, notified |-> ntf, heard |-> hrd,
                   waiting |-> None, raised |-> TRUE]
             ELSE IF insts[i].status # "running"
             THEN stop_each(insts, ntf, hrd, rest \ {i})
             ELSE IF StopsAtOnce(i)
             THEN stop_each([insts EXCEPT ![i] = Stopped(@)],
                            Notify(ntf, i, <<"stopping", "stopped">>),
                            Told(hrd, i, <<"stopping", "stopped">>),
                            rest \ {i})
             ELSE [instances |-> [insts EXCEPT ![i].status = "stopping"],
                   notified |-> Notify(ntf, i, <<"stopping">>),
                   heard |-> Told(hrd, i, <<"stopping">>),
                   waiting |-> i, raised |-> FALSE]

\* The stop_all call after its loop has gone as far as r says.
Halted(r, running, restarted) ==
    [phase |-> IF r.raised THEN "raised"
               ELSE IF r.waiting # None THEN "waiting" ELSE "returned",
     running |-> running, restarted |-> restarted]

\* The ids for which a start that a client asked for is still in
\* create_subprocess_exec.
ClientStarting ==
    {children[c].owner : c \in {d \in Children :
                                   /\ children[d].state = "spawning"
                                   /\ children[d].retry_of = None}}

\* stop_all (instances.py:388-395), called by GstManagerDaemon.stop
\* (main.py:208), one call at a time.  What a start in progress at the call
\* does to an instance is on account of the client that asked for it.
StopAll ==
    LET running == {i \in Ids : Present(i) /\ instances[i].status = "running"}
        r == stop_each(instances, notified, heard, running)
    IN  /\ halting.phase # "waiting"
        /\ instances' = r.instances
        /\ notified' = r.notified
        /\ heard' = r.heard
        /\ stops' = IF r.waiting # None
                    THEN stops \cup {Waiting(r.waiting, "stop_all", NoConfig)}
                    ELSE stops
        /\ halting' = Halted(r, running, running \cap ClientStarting)
        /\ result' = NoResult
        /\ UNCHANGED <<processes, disk, children, nextId, nextChild>>
        /\ UNCHANGED <<status_callbacks, history>>
        /\ UNCHANGED controller
        /\ UNCHANGED events

\* The graceful window of stop_instance expires (instances.py:373-376): the
\* child is killed, and the call goes on waiting for it.
StopTimeout(s) ==
    /\ s \in stops
    /\ children[s.c].state = "alive"
    /\ children' = [children EXCEPT ![s.c].state = "exited",
                                    ![s.c].killed = TRUE]
    /\ result' = NoResult
    /\ UNCHANGED <<instances, processes, disk, stops, nextId, nextChild,
                   notified>>
    /\ UNCHANGED <<status_callbacks, heard, halting, history>>
    /\ UNCHANGED controller
    /\ UNCHANGED events

\* ------------------------------------------- the stops of the signal monitor

\* HdmiStatus (events.py:37-53), reduced to the fields _status_changed
\* compares; mode stands for cable_connected, width, height and fps, which
\* are compared alike.  set is FALSE for last_status = None.
Modes == {"1920x1080p60", "3840x2160p60"}
NoStatus == [set |-> FALSE, signal_locked |-> FALSE, mode |-> ""]
Statuses ==
    {[set |-> TRUE, signal_locked |-> l, mode |-> m] :
        l \in BOOLEAN, m \in Modes}

\* The monitor between two polls, and the monitor suspended inside
\* _handle_status_change(status) in the loop of _on_hdmi_signal_lost, with
\* the instances of the loop's list that it has not reached (rest).
Polling == [phase |-> "polling", status |-> NoStatus, rest |-> {}]
Handling(status, rest) == [phase |-> "handling", status |-> status, rest |-> rest]

\* Pipeline texts that contain "/dev/vdin1".
Vdin1Pipelines == {"v4l2src device=/dev/vdin1 ! fakesink"}

\* A loop that finds no instance to stop.
NeverDependent(insts, i) == FALSE

\* The test of the loop of _on_hdmi_signal_lost (events.py:685-686).
Dependent(insts, i) ==
    /\ insts[i].status = "running"
    /\ insts[i].pipeline \in Vdin1Pipelines

\* The running instances the loop of _on_hdmi_signal_lost stops
\* (events.py:684-691): those whose pipeline text contains "/dev/vdin1".
HdmiDependent == {i \in Ids : Dependent(instances, i)}

\* The loop of _on_hdmi_signal_lost (events.py:684-691) over the instances
\* of rest, in the order of the table: an instance that is not running when
\* the loop reaches it, or whose pipeline does not name the device, is passed
\* over; a stop_instance that does not suspend runs to its end; the loop
\* pauses at the first one that suspends (waiting).
RECURSIVE stop_dependent(_, _, _, _)
stop_dependent(insts, ntf, hrd, rest) ==
    IF rest = {}
    THEN [instances |-> insts, notified |-> ntf, heard |-> hrd,
          waiting |-> None, raised |-> FALSE]
    ELSE LET i == CHOOSE k \in rest : \A j \in rest : k <= j
         IN  IF ~Dependent(insts, i)
             THEN stop_dependent(insts, ntf, hrd, rest \ {i})
             ELSE IF StopsAtOnce(i)
             THEN stop_dependent([insts EXCEPT ![i] = Stopped(@)],
                                 Notify(ntf, i, <<"stopping", "stopped">>),
                                 Told(hrd, i, <<"stopping", "stopped">>),
                                 rest \ {i})
             ELSE [instances |-> [insts EXCEPT ![i].status = "stopping"],
                   notified |-> Notify(ntf, i, <<"stopping">>),
                   heard |-> Told(hrd, i, <<"stopping">>),
                   waiting |-> i, raised |-> FALSE]

\* list(self.instance_manager.instances.values()) (events.py:684).
Listed(insts) == {i \in Ids : insts[i].status # "absent"}

\* ------------------------------------------------------------------ import

\* Texts a bus client may hand to ImportInstance: each names the fields of an
\* instance record.
ImportTexts ==
    {[name |-> "t", pipeline |-> "fakesrc ! fakesink", status |-> "stopped",
      pid |-> None, auto_restart |-> FALSE, max_retries |-> DefaultMaxRetries,
      retry_count |-> 0, error_message |-> NoMessage, created_at |-> 0,
      modified_at |-> 0, uptime_start |-> None,
      recording_active |-> FALSE, location |-> DefaultLocation],
     [name |-> "t", pipeline |-> "fakesrc ! fakesink", status |-> "running",
      pid |-> 1, auto_restart |-> TRUE, max_retries |-> 0,
      retry_count |-> 1, error_message |-> NoMessage, created_at |-> 0,
      modified_at |-> 0, uptime_start |-> Uptime,
      recording_active |-> FALSE, location |-> DefaultLocation]}

\* An import that keeps the embedded id whatever the store holds.
import_same_id(id, collides) == id

\* The id import_instance stores the record under (history.py:252-265): a
\* fresh one when the embedded id exists on disk.
import_id(id, collides) == IF collides THEN nextId ELSE id

\* import_instance (history.py:235-277) followed by the reload of
\* ImportInstance (api.py:496-513); id is the id embedded in the text, either
\* one that exists on disk or one never used before.  An embedded id that
\* exists on disk is replaced by a fresh one and the name gets " (copy)";
\* otherwise the embedded id is kept.
ImportInstance(text, id) ==
    LET collides == disk[id] # NoRecord
        new_id == import_id(id, collides)
    IN  /\ nextId <= MaxIds
        /\ HasRoom
        /\ collides \/ id = nextId
        /\ \E timestamp \in Now :
            LET rec == [text EXCEPT
                          !.name = IF collides THEN "t (copy)" ELSE @,
                          !.modified_at = timestamp]
            IN  /\ history' = [history EXCEPT ![new_id] =
                                  save_instance(disk[new_id], @, timestamp)]
                /\ disk' = [disk EXCEPT ![new_id] = rec]
                /\ instances' = [instances EXCEPT ![new_id] = from_dict(rec)]
        /\ nextId' = nextId + 1
        /\ result' = <<"import", new_id, "ok">>
        /\ UNCHANGED <<processes, children, stops, nextChild, notified>>
        /\ UNCHANGED <<status_callbacks, heard, halting>>
        /\ UNCHANGED controller
        /\ UNCHANGED events

\* export_instance (history.py:210-233): current.json is parsed, the entry
\* "_history_file" is dropped if there is one, and the rest is written out as
\* text, whatever fields it has.
export_instance(i) ==
    [f \in (DOMAIN disk[i]) \ {"_history_file"} |-> disk[i][f]]

\* A client exports instance i (ExportInstance, api.py:488-494) and imports
\* the text it got.
ImportExported(i) ==
    /\ disk[i] \notin {NoRecord, Partial}
    /\ ImportInstance(export_instance(i), i)

\* --------------------------------------------------- auto-instance controller


\* PipelineBuilder.build (auto_instance.py:86-146): the pipeline text does
\* not depend on autostart_on_ready.
build(cfg) == "v4l2src device=/dev/video71 ! amlvenc ! srtsink"

\* A supervisor module that defines InstanceType.
InstanceTypeDefined == TRUE

\* "from instances import InstanceType" (auto_instance.py:290): instances.py
\* defines no InstanceType, so the statement raises ImportError.
InstanceTypeImportable == FALSE

\* The instance create_or_update creates and tags (auto_instance.py:292-304).
AutoInstance(cfg, timestamp) ==
    [NewInstance(AutoName, build(cfg), timestamp) EXCEPT
        !.instance_type = "auto"]

\* create_or_update from line 285 (delete of the remembered id; a ValueError
\* is swallowed at line 286, and skipping the call at 277/280 leaves the same
\* state as a call that raises) to its end: table, store, remembered id and
\* outcome.  The new instance is saved by create_instance and again at
\* line 307.
create_or_update_at(insts, dsk, hst, new_id, id, cfg, timestamp) ==
    LET d == delete_instance(insts, dsk, id)
        inst == AutoInstance(cfg, timestamp)
        hist == rmtree(hst, id, d.outcome)
    IN  IF ~InstanceTypeImportable
        THEN [instances |-> d.instances, disk |-> d.disk, history |-> hist,
              instance_id |-> id, nextId |-> new_id,
              outcome |-> "ImportError"]
        ELSE [instances |-> [d.instances EXCEPT ![new_id] = inst],
              disk |-> [d.disk EXCEPT ![new_id] = to_dict(inst)],
              history |-> [hist EXCEPT ![new_id] =
                  save_instance(to_dict(inst),
                                save_instance(dsk[new_id], @, timestamp),
                                timestamp)],
              instance_id |-> new_id, nextId |-> new_id + 1,
              outcome |-> "ok"]

\* create_or_update in the current state of the store: the history
\* directories as they are, the next fresh uuid.
create_or_update(insts, dsk, id, cfg, timestamp) ==
    create_or_update_at(insts, dsk, history, nextId, id, cfg, timestamp)

\* save (auto_instance.py:225-246), called at line 310 only.
save(r, cfg) ==
    IF r.outcome = "ok"
    THEN [instance_id |-> r.instance_id, config |-> cfg, exists |-> TRUE]
    ELSE blob

\* The remembered instance is in the table and running (lines 279-281,
\* 374-375, 439-441).
ManagedRunning ==
    Present(instance_id) /\ instances[instance_id].status = "running"

\* The table after the stop_instance of a cleanup that does not suspend.
StoppedAtOnce ==
    IF ManagedRunning THEN [instances EXCEPT ![instance_id] = Stopped(@)]
    ELSE instances

NotifiedAtOnce ==
    IF ManagedRunning
    THEN Notify(notified, instance_id, <<"stopping", "stopped">>)
    ELSE notified

HeardAtOnce ==
    IF ManagedRunning
    THEN Hear(instance_id, <<"stopping", "stopped">>)
    ELSE heard

\* The cleanup's stop_instance suspends in process.wait().
Suspend(cont, cfg) ==
    /\ instances' = [instances EXCEPT ![instance_id].status = "stopping"]
    /\ notified' = Notify(notified, instance_id, <<"stopping">>)
    /\ heard' = Hear(instance_id, <<"stopping">>)
    /\ stops' = stops \cup {Waiting(instance_id, cont, cfg)}
    /\ result' = NoResult
    /\ UNCHANGED <<disk, history, nextId, instance_id, blob>>

\* SetAutoInstanceConfig (api.py:252-315) with create_or_update
\* (auto_instance.py:248-313).
SetAutoInstanceConfig(cfg) ==
    /\ config' = cfg
    /\ IF ManagedRunning /\ ~StopsAtOnce(instance_id)
       THEN Suspend("replace", cfg)
       ELSE /\ InstanceTypeImportable => nextId <= MaxIds
            /\ \E timestamp \in Now :
                LET r == create_or_update(StoppedAtOnce, disk, instance_id,
                                          cfg, timestamp)
                IN  /\ instances' = r.instances
                    /\ disk' = r.disk
                    /\ history' = r.history
                    /\ nextId' = r.nextId
                    /\ instance_id' = r.instance_id
                    /\ blob' = save(r, cfg)
                    /\ result' = <<"set_config", r.instance_id, r.outcome>>
            /\ notified' = NotifiedAtOnce
            /\ heard' = HeardAtOnce
            /\ UNCHANGED stops
    /\ UNCHANGED <<processes, children, nextChild, status_callbacks, halting>>
    /\ UNCHANGED events

\* DeleteAutoInstance (api.py:366-377) with delete (auto_instance.py:431-457).
DeleteAutoInstance ==
    /\ IF ManagedRunning /\ ~StopsAtOnce(instance_id)
       THEN Suspend("delete", NoConfig) /\ UNCHANGED config
       ELSE LET d == delete_instance(StoppedAtOnce, disk, instance_id)
            IN  /\ instances' = d.instances
                /\ disk' = d.disk
                /\ history' = rmtree(history, instance_id, d.outcome)
                /\ notified' = NotifiedAtOnce
                /\ heard' = HeardAtOnce
                /\ instance_id' = None
                /\ config' = NoConfig
                /\ blob' = NoBlob
                /\ result' = <<"delete_auto", instance_id, "ok">>
                /\ UNCHANGED <<stops, nextId>>
    /\ UNCHANGED <<processes, children, nextChild, status_callbacks, halting>>
    /\ UNCHANGED events

\* stop_instance after process.wait() returned (instances.py:380-386), and
\* what its caller does next: StopInstance and on_passthrough_lost return,
\* create_or_update goes on from line 284, delete from line 443, stop_all
\* with the ids behind s.id, _on_hdmi_signal_lost with its loop (lost_eval:
\* from its start, events.py:684; lost_loop: behind s.id) and then the
\* monitor with last_status = status (events.py:396).  The instance object is the one fetched at
\* line 351.
StopReturns(s) ==
    LET insts == IF Present(s.id)
                 THEN [instances EXCEPT ![s.id] = Stopped(@)]
                 ELSE instances
        ntf == Notify(notified, s.id, <<"stopped">>)
        hrd == Hear(s.id, <<"stopped">>)
        r == IF s.cont = "stop_all"
             THEN stop_each(insts, ntf, hrd,
                            {k \in halting.running : k > s.id})
             ELSE IF s.cont = "lost_eval"
             THEN stop_dependent(insts, ntf, hrd, Listed(insts))
             ELSE IF s.cont = "lost_loop"
             THEN stop_dependent(insts, ntf, hrd,
                                 {k \in monitor.rest : k > s.id})
             ELSE [instances |-> insts, notified |-> ntf, heard |-> hrd,
                   waiting |-> None, raised |-> FALSE]
    IN  /\ s \in stops
        /\ children[s.c].state = "exited"
        /\ stops' = IF r.waiting # None
                    THEN (stops \ {s})
                         \cup {Waiting(r.waiting,
                                       IF s.cont = "stop_all" THEN "stop_all"
                                       ELSE "lost_loop", NoConfig)}
                    ELSE stops \ {s}
        /\ monitor' = IF s.cont \notin {"lost_eval", "lost_loop"} THEN monitor
                      ELSE IF r.waiting = None THEN Polling
                      ELSE IF s.cont = "lost_eval"
                      THEN Handling(monitor.status, Listed(insts))
                      ELSE monitor
        /\ last_status' = IF /\ s.cont \in {"lost_eval", "lost_loop"}
                             /\ r.waiting = None
                          THEN monitor.status
                          ELSE last_status
        /\ children' = Settle([children EXCEPT ![s.c].stopped = TRUE], stops')
        /\ notified' = r.notified
        /\ heard' = r.heard
        /\ halting' = IF s.cont = "stop_all"
                      THEN Halted(r, halting.running, halting.restarted)
                      ELSE halting
        /\ IF s.cont = "replace"
           THEN /\ InstanceTypeImportable => nextId <= MaxIds
                /\ \E timestamp \in Now :
                    LET u == create_or_update(insts, disk, instance_id, s.cfg,
                                              timestamp)
                    IN  /\ instances' = u.instances
                        /\ disk' = u.disk
                        /\ history' = u.history
                        /\ nextId' = u.nextId
                        /\ instance_id' = u.instance_id
                        /\ blob' = save(u, config)
                        /\ result' = <<"set_config", u.instance_id, u.outcome>>
                /\ UNCHANGED config
           ELSE IF s.cont = "delete"
           THEN LET d == delete_instance(insts, disk, instance_id)
                IN  /\ instances' = d.instances
                    /\ disk' = d.disk
                    /\ history' = rmtree(history, instance_id, d.outcome)
                    /\ instance_id' = None
                    /\ config' = NoConfig
                    /\ blob' = NoBlob
                    /\ result' = <<"delete_auto", instance_id, "ok">>
                    /\ UNCHANGED nextId
           ELSE /\ instances' = r.instances
                /\ result' = NoResult
                /\ UNCHANGED <<disk, history, nextId>>
                /\ UNCHANGED controller
        /\ UNCHANGED <<processes, nextChild, status_callbacks>>
        /\ UNCHANGED <<reported, rx_stable, tx_status, tx_check,
                       last_passthrough_state, emitted, evaluations>>

\* on_passthrough_ready (auto_instance.py:326-364).  An exception of
\* create_or_update leaves the handler before its start_instance.
on_passthrough_ready ==
    IF ~(config.set /\ config.autostart_on_ready)
    THEN /\ result' = NoResult
         /\ UNCHANGED supervisor
         /\ UNCHANGED controller
    ELSE \E timestamp \in Now :
         LET recreate == \/ instance_id = None
                         \/ /\ Present(instance_id)
                            /\ instances[instance_id].status = "stopped"
             r == IF recreate
                  THEN create_or_update(instances, disk, instance_id, config,
                                        timestamp)
                  ELSE [instances |-> instances, disk |-> disk,
                        history |-> history, instance_id |-> instance_id,
                        nextId |-> nextId, outcome |-> "kept"]
             id == r.instance_id
             starts == /\ r.outcome # "ImportError"
                       /\ id \in Ids
                       /\ r.instances[id].status \notin {"absent", "running"}
         IN  /\ (recreate /\ InstanceTypeImportable) => nextId <= MaxIds
             /\ starts => nextChild <= MaxChildren
             /\ instances' = IF starts THEN Starting(r.instances, id)
                             ELSE r.instances
             /\ notified' = IF starts THEN Notify(notified, id, <<"starting">>)
                            ELSE notified
             /\ heard' = IF starts THEN Hear(id, <<"starting">>) ELSE heard
             /\ children' = IF starts
                            THEN Spawning(children, id, nextChild, None)
                            ELSE children
             /\ nextChild' = IF starts THEN nextChild + 1 ELSE nextChild
             /\ disk' = r.disk
             /\ history' = r.history
             /\ nextId' = r.nextId
             /\ instance_id' = id
             /\ blob' = IF recreate THEN save(r, config) ELSE blob
             /\ result' = NoResult
             /\ UNCHANGED <<processes, stops, config, status_callbacks,
                            halting>>

\* on_passthrough_lost (auto_instance.py:366-380).
on_passthrough_lost ==
    /\ IF ~ManagedRunning
       THEN /\ result' = NoResult
            /\ UNCHANGED <<instances, notified, heard, stops, disk, history,
                           nextId>>
            /\ UNCHANGED <<instance_id, blob>>
       ELSE IF StopsAtOnce(instance_id)
       THEN /\ instances' = StoppedAtOnce
            /\ notified' = NotifiedAtOnce
            /\ heard' = HeardAtOnce
            /\ result' = NoResult
            /\ UNCHANGED <<stops, disk, history, nextId, instance_id, blob>>
       ELSE Suspend("none", NoConfig)
    /\ UNCHANGED <<processes, children, nextChild, config, status_callbacks,
                   halting>>

\* The controller's handlers, called with the passthrough state as the
\* caller sees it.
PassthroughReady == on_passthrough_ready /\ UNCHANGED events
PassthroughLost == on_passthrough_lost /\ UNCHANGED events

\* -------------------------------------------------------- the event manager

\* HdmiTxStatus (tvservice.py:123-143), reduced to what the passthrough state
\* is computed from; set is FALSE for _tx_status = None.
NoTxStatus ==
    [set |-> FALSE, connected |-> FALSE, ready |-> FALSE, resolution |-> ""]
TxStatuses ==
    {[set |-> TRUE, connected |-> c, ready |-> r, resolution |-> res] :
        c \in BOOLEAN, r \in BOOLEAN, res \in {"", "3840x2160p60"}}

\* _last_passthrough_state = None.
NoPassthroughState == [set |-> FALSE, can_capture |-> FALSE, resolution |-> ""]

\* events.py calls time.time() (line 576) and has no "import time"
\* (lines 7-13): the call raises NameError.
TimeImported == FALSE

\* get_passthrough_state (events.py:527-552), reduced to the two entries
\* _evaluate_passthrough_state compares.
get_passthrough_state(rx, tx) ==
    [set |-> TRUE,
     can_capture |-> rx /\ (tx.set /\ tx.ready) /\ (tx.set /\ tx.connected),
     resolution |-> IF tx.set THEN tx.resolution ELSE ""]

\* An evaluation that takes every state for a new one.
always_changed(last, current) == TRUE

\* _evaluate_passthrough_state (events.py:625-629): state_changed.
state_changed(last, current) ==
    \/ ~last.set
    \/ last.can_capture # current.can_capture
    \/ last.resolution # current.resolution

\* HdmiMonitor.last_status.signal_locked, False while last_status is None
\* (events.py:428).
locked == last_status.set /\ last_status.signal_locked

\* A monitor that takes every status it reads for a changed one.
always_differs(last, new) == TRUE

\* _status_changed (events.py:411-424).
_status_changed(last, new) ==
    \/ ~last.set
    \/ new.signal_locked # last.signal_locked
    \/ new.mode # last.mode

\* _on_hdmi_signal_ready (events.py:568-585).  The handler raises at
\* line 576, before it sets _rx_stable_time, cancels a pending check and
\* creates the task of the delayed TX check; _handle_status_change logs the
\* exception (line 452).
on_hdmi_signal_ready ==
    /\ IF TimeImported
       THEN /\ rx_stable' = TRUE
            /\ tx_check' = "pending"
            /\ result' = <<"signal_ready", None, "ok">>
       ELSE /\ UNCHANGED <<rx_stable, tx_check>>
            /\ result' = <<"signal_ready", None, "NameError">>
    /\ UNCHANGED <<tx_status, last_passthrough_state, emitted, evaluations>>
    /\ UNCHANGED supervisor
    /\ UNCHANGED controller

\* _on_hdmi_signal_lost (events.py:668-691), called and awaited by
\* _handle_status_change(status): it evaluates the passthrough state
\* (events.py:620-666; on a change the composite signal is emitted and
\* on_passthrough_lost stops the managed instance) and then stops the
\* dependent instances.  The monitor goes on (last_status = status,
\* events.py:396) when the handler has returned.
on_hdmi_signal_lost(status) ==
    LET current == get_passthrough_state(FALSE, NoTxStatus)
        changed == state_changed(last_passthrough_state, current)
        r == IF changed
             THEN stop_dependent(StoppedAtOnce, NotifiedAtOnce, HeardAtOnce,
                                 Listed(instances))
             ELSE stop_dependent(instances, notified, heard,
                                 Listed(instances))
    IN  /\ evaluations < MaxEvaluations
        /\ rx_stable' = FALSE
        /\ tx_status' = NoTxStatus
        /\ tx_check' = IF tx_check = "pending" THEN "cancelled" ELSE tx_check
        /\ evaluations' = evaluations + 1
        /\ IF changed
           THEN /\ last_passthrough_state' = current
                /\ emitted' = Append(emitted, current)
           ELSE UNCHANGED <<last_passthrough_state, emitted>>
        /\ IF changed /\ ManagedRunning /\ ~StopsAtOnce(instance_id)
           THEN /\ Suspend("lost_eval", NoConfig)
                /\ monitor' = Handling(status, {})
                /\ UNCHANGED last_status
           ELSE /\ instances' = r.instances
                /\ notified' = r.notified
                /\ heard' = r.heard
                /\ stops' = IF r.waiting # None
                            THEN stops \cup {Waiting(r.waiting, "lost_loop",
                                                     NoConfig)}
                            ELSE stops
                /\ monitor' = IF r.waiting # None
                              THEN Handling(status, Listed(instances))
                              ELSE Polling
                /\ last_status' = IF r.waiting # None THEN last_status
                                  ELSE status
                /\ result' = NoResult
                /\ UNCHANGED <<disk, history, nextId, instance_id, blob>>
        /\ UNCHANGED <<processes, children, nextChild, config,
                       status_callbacks, halting>>

\* One turn of _monitor_loop (events.py:381-409): the status is read (first);
\* if it differs from last_status it is read again after the stability wait
\* (second); if that differs too, _handle_status_change (events.py:426-463)
\* calls the status callback (events.py:553-566, one HdmiSignalChanged
\* signal), then the ready handler when the signal has locked, the lost
\* handler when it has unlocked, and last_status becomes the second reading.
Poll(first, second) ==
    /\ monitor.phase = "polling"
    /\ IF ~(/\ _status_changed(last_status, first)
            /\ _status_changed(last_status, second))
       THEN UNCHANGED vars
       ELSE /\ reported < MaxReports
            /\ reported' = reported + 1
            /\ IF second.signal_locked /\ ~locked
               THEN /\ on_hdmi_signal_ready
                    /\ last_status' = second
                    /\ UNCHANGED monitor
               ELSE IF locked /\ ~second.signal_locked
               THEN on_hdmi_signal_lost(second)
               ELSE /\ last_status' = second
                    /\ result' = NoResult
                    /\ UNCHANGED <<monitor, rx_stable, tx_status, tx_check,
                                   last_passthrough_state, emitted,
                                   evaluations>>
                    /\ UNCHANGED supervisor
                    /\ UNCHANGED controller

\* The turns of the monitor that call _on_hdmi_signal_ready
\* (events.py:446-453).
SignalReady ==
    \E first, second \in Statuses :
        /\ Poll(first, second)
        /\ _status_changed(last_status, first)
        /\ _status_changed(last_status, second)
        /\ second.signal_locked /\ ~locked

\* The turns of the monitor that call _on_hdmi_signal_lost
\* (events.py:456-463).
SignalLost ==
    \E first, second \in Statuses :
        /\ Poll(first, second)
        /\ _status_changed(last_status, first)
        /\ _status_changed(last_status, second)
        /\ locked /\ ~second.signal_locked

\* _delayed_tx_check (events.py:587-602) after its sleep, with _check_tx_status
\* (events.py:604-618) reading tx from sysfs and the evaluation that follows.
\* The task is created at line 583 only.
DelayedTxCheck(tx) ==
    LET current == get_passthrough_state(rx_stable, tx)
    IN  /\ tx_check = "pending"
        /\ evaluations < MaxEvaluations
        /\ tx_check' = "done"
        /\ UNCHANGED <<last_status, monitor, reported, rx_stable>>
        /\ IF ~rx_stable
           THEN /\ UNCHANGED <<tx_status, last_passthrough_state, emitted,
                               evaluations>>
                /\ result' = NoResult
                /\ UNCHANGED supervisor
                /\ UNCHANGED controller
           ELSE /\ tx_status' = tx
                /\ evaluations' = evaluations + 1
                /\ IF state_changed(last_passthrough_state, current)
                   THEN /\ last_passthrough_state' = current
                        /\ emitted' = Append(emitted, current)
                        /\ IF current.can_capture THEN on_passthrough_ready
                           ELSE on_passthrough_lost
                   ELSE /\ UNCHANGED <<last_passthrough_state, emitted>>
                        /\ result' = NoResult
                        /\ UNCHANGED supervisor
                        /\ UNCHANGED controller

\* ---------------------------------------------------------- daemon start-up

\* Records found on disk when the daemon starts.
StoredRecords ==
    {[name |-> "t", pipeline |-> "fakesrc ! fakesink", status |-> "running",
      pid |-> 1, auto_restart |-> rc[1], max_retries |-> rc[2],
      retry_count |-> 0, error_message |-> NoMessage, created_at |-> 0,
      modified_at |-> 0, uptime_start |-> None,
      recording_active |-> FALSE, location |-> DefaultLocation] :
        rc \in {<<TRUE, 2>>, <<FALSE, DefaultMaxRetries>>, <<TRUE, 0>>}}

\* load_instances (instances.py:114-128): from_dict, then the runtime state
\* is reset.
load_instance(rec) ==
    [from_dict(rec) EXCEPT !.status = "stopped", !.pid = None,
                           !.error_message = NoMessage, !.retry_count = 0]

\* load_all_instances (history.py:25-71) with load_instances: a directory
\* whose current.json is missing or does not parse gives no instance.
load_instances(dsk) ==
    [i \in Ids |-> IF dsk[i] \in {NoRecord, Partial} THEN NoInstance
                   ELSE load_instance(dsk[i])]

\* GstManagerDaemon.start (main.py:96-130) over the store dsk, hst with
\* new_id the next fresh uuid: it loads the store, AutoInstanceManager.load
\* (auto_instance.py:191-223) reads the controller's file, the start-up
\* create_or_update (main.py:115) runs, and the facade registers its
\* listener.  The coroutines and children of the old process are gone.
Started(dsk, hst, new_id) ==
    LET cfg == IF blob.exists /\ blob.config.set THEN blob.config
               ELSE DEFAULT_CONFIG
        id == IF blob.exists THEN blob.instance_id ELSE None
    IN  /\ InstanceTypeImportable => new_id <= MaxIds
        /\ \E timestamp \in Now :
            LET r == create_or_update_at(load_instances(dsk), dsk, hst,
                                         new_id, id, cfg, timestamp)
            IN  /\ instances' = r.instances
                /\ disk' = r.disk
                /\ history' = r.history
                /\ nextId' = r.nextId
                /\ instance_id' = r.instance_id
                /\ blob' = save(r, cfg)
        /\ config' = cfg
        /\ processes' = [i \in Ids |-> None]
        /\ children' = [c \in Children |-> NoChild]
        /\ stops' = {}
        /\ notified' = [i \in Ids |-> <<>>]
        /\ status_callbacks' = <<"signal">>
        /\ heard' = [i \in Ids |-> <<>>]
        /\ halting' = Idle
        /\ UNCHANGED nextChild
        /\ last_status' = NoStatus
        /\ monitor' = Polling
        /\ reported' = 0
        /\ rx_stable' = FALSE
        /\ tx_status' = NoTxStatus
        /\ tx_check' = "none"
        /\ last_passthrough_state' = NoPassthroughState
        /\ emitted' = <<>>
        /\ evaluations' = 0

\* The daemon is stopped and started again.
Restart ==
    /\ Started(disk, history, nextId)
    /\ result' = <<"restart", None, "ok">>

\* The daemon is killed inside the create_or_update of a
\* SetAutoInstanceConfig(cfg), as far into it as the call gets before save
\* (auto_instance.py:310) writes the controller's file, and is started again:
\* what the call has written to the store is there, the controller's file is
\* the old one.
RestartInCreate(cfg) ==
    /\ InstanceTypeImportable => nextId <= MaxIds
    /\ \E timestamp \in Now :
        LET u == create_or_update(StoppedAtOnce, disk, instance_id, cfg,
                                  timestamp)
        IN  Started(u.disk, u.history, u.nextId)
    /\ result' = <<"restart", None, "killed">>

\* What GstManagerDaemon.start leaves besides the table and the store: no
\* child, no coroutine, the facade's listener, the controller and the event
\* manager as constructed.
Constructed ==
    /\ processes = [i \in Ids |-> None]
    /\ children = [c \in Children |-> NoChild]
    /\ stops = {}
    /\ nextChild = 1
    /\ notified = [i \in Ids |-> <<>>]
    /\ status_callbacks = <<"signal">>
    /\ heard = [i \in Ids |-> <<>>]
    /\ halting = Idle
    /\ history = [i \in Ids |-> NoHistory]
    /\ result = NoResult
    /\ config = DEFAULT_CONFIG
    /\ instance_id = None
    /\ blob = NoBlob
    /\ last_status = NoStatus
    /\ monitor = Polling
    /\ reported = 0
    /\ rx_stable = FALSE
    /\ tx_status = NoTxStatus
    /\ tx_check = "none"
    /\ last_passthrough_state = NoPassthroughState
    /\ emitted = <<>>
    /\ evaluations = 0

\* The state once GstManagerDaemon.start (main.py:104-130) has loaded the
\* store, here empty or holding one instance, and the controller: load sets
\* the default config, the start-up create_or_update ends at its import
\* statement, and the facade registers its listener (api.py:79).
Init ==
    /\ \E rec \in StoredRecords \cup {NoRecord} :
        /\ disk = [i \in Ids |-> IF i = 1 THEN rec ELSE NoRecord]
        /\ instances = [i \in Ids |-> IF i = 1 /\ rec # NoRecord
                                      THEN load_instance(rec) ELSE NoInstance]
        /\ nextId = IF rec = NoRecord THEN 1 ELSE 2
    /\ Constructed

\* A record of the store whose pipeline reads the capture device.
CaptureRecord ==
    [name |-> "c", pipeline |-> "v4l2src device=/dev/vdin1 ! fakesink",
     status |-> "stopped", pid |-> None, auto_restart |-> FALSE,
     max_retries |-> DefaultMaxRetries, retry_count |-> 0,
     error_message |-> NoMessage, created_at |-> 0, modified_at |-> 0,
     uptime_start |-> None, recording_active |-> FALSE,
     location |-> DefaultLocation]

\* The state once GstManagerDaemon.start has loaded a store that holds an
\* instance reading the capture device and, or not, a second instance that
\* reads it too or does not.
InitSignal ==
    /\ \E rec \in {NoRecord, CaptureRecord,
                    [CaptureRecord EXCEPT !.name = "t",
                                          !.pipeline = "fakesrc ! fakesink"]} :
        /\ disk = [i \in Ids |-> IF i = 1 THEN CaptureRecord
                                 ELSE IF i = 2 THEN rec ELSE NoRecord]
        /\ instances = load_instances(disk)
        /\ nextId = IF rec = NoRecord THEN 2 ELSE 3
    /\ Constructed

Next ==
    \/ \E p \in UserPipelines : CreateInstance(p)
    \/ \E i \in Ids : DeleteInstance(i)
    \/ \E i \in Ids, p \in UserPipelines : UpdatePipeline(i, p)
    \/ \E i \in Ids : StartInstance(i)
    \/ \E c \in Children : StartSpawned(c)
    \/ \E c \in Children, e \in Messages : StartFailed(c, e)
    \/ \E c \in Children : ChildExit(c)
    \/ \E c \in Children, code \in ExitCodes \cup {KillCode}, e \in Messages :
          MonitorExit(c, code, e)
    \/ \E c \in Children : RetryStart(c)
    \/ \E i \in Ids : StopInstance(i)
    \/ \E s \in stops : StopTimeout(s)
    \/ \E s \in stops : StopReturns(s)
    \/ \E t \in ImportTexts, j \in Ids : ImportInstance(t, j)
    \/ \E cfg \in Requests : SetAutoInstanceConfig(cfg)
    \/ DeleteAutoInstance
    \/ PassthroughReady
    \/ PassthroughLost
    \/ \E i \in Ids, p \in UserPipelines : UpdatePipelineFails(i, p)
    \/ \E k \in ListenerKinds : AddStatusCallback(k)
    \/ \E c \in Children : ListenerReturns(c)
    \/ StopAll
    \/ Restart
    \/ \E i \in Ids, e \in BOOLEAN, l \in Locations \cup {""} :
          ToggleRecording(i, e, l)
    \/ \E first, second \in Statuses : Poll(first, second)
    \/ \E tx \in TxStatuses : DelayedTxCheck(tx)
    \/ \E i \in Ids : ImportExported(i)

Spec == Init /\ [][Next]_vars

\* The supervisor's life cycle of a child: start, reaper, retry and stop.
Lifecycle ==
    \/ \E i \in Ids : StartInstance(i)
    \/ \E c \in Children : StartSpawned(c)
    \/ \E c \in Children, e \in Messages : StartFailed(c, e)
    \/ \E c \in Children : ChildExit(c)
    \/ \E c \in Children, code \in ExitCodes \cup {KillCode}, e \in Messages :
          MonitorExit(c, code, e)
    \/ \E c \in Children : RetryStart(c)
    \/ \E i \in Ids : StopInstance(i)
    \/ \E s \in stops : StopTimeout(s)
    \/ \E s \in stops : StopReturns(s)

\* The life cycle of the stored instance alone.
SpecLife == Init /\ [][Lifecycle]_vars

\* The life cycle with clients that import records.
NextImport ==
    \/ Lifecycle
    \/ \E t \in ImportTexts, j \in Ids : ImportInstance(t, j)

SpecImport == Init /\ [][NextImport]_vars

\* The life cycle with clients that create, delete and edit instances.
NextEdit ==
    \/ Lifecycle
    \/ \E p \in UserPipelines : CreateInstance(p)
    \/ \E i \in Ids : DeleteInstance(i)
    \/ \E i \in Ids, p \in UserPipelines : UpdatePipeline(i, p)

SpecEdit == Init /\ [][NextEdit]_vars

\* The life cycle with the auto-instance controller.
NextAuto ==
    \/ Lifecycle
    \/ \E cfg \in Configs : SetAutoInstanceConfig(cfg)
    \/ DeleteAutoInstance
    \/ PassthroughReady
    \/ PassthroughLost

SpecAuto == Init /\ [][NextAuto]_vars

\* The life cycle with listeners registered behind the facade's.
NextListen ==
    \/ Lifecycle
    \/ \E k \in ListenerKinds : AddStatusCallback(k)
    \/ \E c \in Children : ListenerReturns(c)

SpecListen == Init /\ [][NextListen]_vars

\* The life cycle with the daemon's shutdown.
NextHalt ==
    \/ Lifecycle
    \/ StopAll

SpecHalt == Init /\ [][NextHalt]_vars

\* The life cycle with clients that delete instances.
NextDelete ==
    \/ Lifecycle
    \/ \E i \in Ids : DeleteInstance(i)

SpecDelete == Init /\ [][NextDelete]_vars

\* Children that run and end, with no stop request and no retry resumed.
Run ==
    \/ \E i \in Ids : StartInstance(i)
    \/ \E c \in Children : StartSpawned(c)
    \/ \E c \in Children : ChildExit(c)
    \/ \E c \in Children, code \in ExitCodes \cup {KillCode}, e \in Messages :
          MonitorExit(c, code, e)

\* Running children with clients that edit pipelines, and daemon restarts.
NextUpdate ==
    \/ Run
    \/ \E i \in Ids, p \in UserPipelines : UpdatePipeline(i, p)
    \/ Restart

SpecUpdate == Init /\ [][NextUpdate]_vars

\* The store under edits of an instance that is never started, with failing
\* writes and daemon restarts.
NextHistory ==
    \/ \E i \in Ids, p \in UserPipelines : UpdatePipeline(i, p)
    \/ \E i \in Ids, p \in UserPipelines : UpdatePipelineFails(i, p)
    \/ Restart

SpecHistory == Init /\ [][NextHistory]_vars

\* The store under clients that edit, delete and import instances that are
\* never started.
NextStore ==
    \/ \E i \in Ids : DeleteInstance(i)
    \/ \E i \in Ids, p \in UserPipelines : UpdatePipeline(i, p)
    \/ \E t \in ImportTexts, j \in Ids : ImportInstance(t, j)

SpecStore == Init /\ [][NextStore]_vars

\* Start requests, with clients that edit pipelines and that export and
\* import instances.
NextExport ==
    \/ \E i \in Ids : StartInstance(i)
    \/ \E i \in Ids, p \in UserPipelines : UpdatePipeline(i, p)
    \/ \E i \in Ids : ImportExported(i)

SpecExport == Init /\ [][NextExport]_vars

\* Children that run and end, with clients that toggle the recording of
\* running instances.
NextRecord ==
    \/ Run
    \/ \E i \in Ids, e \in BOOLEAN, l \in Locations \cup {""} :
          ToggleRecording(i, e, l)

SpecRecord == Init /\ [][NextRecord]_vars

\* Children that run and end, with the capture input gaining and losing its
\* signal. The delayed TX check is left out: it runs only when scheduled.
NextEvents ==
    \/ Run
    \/ \E first, second \in Statuses : Poll(first, second)

SpecEvents == Init /\ [][NextEvents]_vars

\* Children that run and end, with clients that send configurations of the
\* auto instance, in range or not.
NextConfig ==
    \/ Run
    \/ \E cfg \in Requests : SetAutoInstanceConfig(cfg)

SpecConfig == Init /\ [][NextConfig]_vars

\* Children that run, end without a word on stderr and are stopped, over a
\* store with an instance reading the capture device, and the signal monitor
\* polling its input.
NextSignal ==
    \/ \E i \in Ids : StartInstance(i)
    \/ \E c \in Children : StartSpawned(c)
    \/ \E c \in Children : ChildExit(c)
    \/ \E c \in Children, code \in ExitCodes \cup {KillCode} :
          MonitorExit(c, code, {"Exit code"})
    \/ \E i \in Ids : StopInstance(i)
    \/ \E s \in stops : StopTimeout(s)
    \/ \E s \in stops : StopReturns(s)
    \/ \E first, second \in Statuses : Poll(first, second)

SpecSignal == InitSignal /\ [][NextSignal]_vars

\* The life cycle with the auto-instance controller and clients that delete
\* instances through the bus, the managed one included.
NextManaged ==
    \/ NextAuto
    \/ \E i \in Ids : DeleteInstance(i)

SpecManaged == Init /\ [][NextManaged]_vars

\* The life cycle with the auto-instance controller and a daemon that is
\* stopped, or killed in the middle of a create_or_update, and started again.
NextBoot ==
    \/ NextAuto
    \/ Restart
    \/ \E cfg \in Configs : RestartInCreate(cfg)

SpecBoot == Init /\ [][NextBoot]_vars

\* The steps the supervisor takes by itself once their awaits complete: a
\* spawn returns or raises, a child ends, a reaper resumes after communicate()
\* or after its retry delay, a stop resumes after its wait or its timeout.
SupervisorSteps ==
    \/ \E c \in Children : StartSpawned(c)
    \/ \E c \in Children, e \in Messages : StartFailed(c, e)
    \/ \E c \in Children : ChildExit(c)
    \/ \E c \in Children, code \in ExitCodes \cup {KillCode}, e \in Messages :
          MonitorExit(c, code, e)
    \/ \E c \in Children : RetryStart(c)
    \/ \E s \in stops : StopTimeout(s)
    \/ \E s \in stops : StopReturns(s)

\* The life cycle with an event loop that resumes every coroutine that can
\* go on and children that end; clients request what and when they like.
SpecRetry == Init /\ [][Lifecycle]_vars /\ WF_vars(SupervisorSteps)

\* ------------------------------------------------------------------ claims

\* The children of instance i that are running or have exited without their
\* reaper having noticed yet.
Unreaped(i) ==
    {c \in Children :
        /\ children[c].owner = i
        /\ \/ children[c].state = "alive"
           \/ children[c].state = "exited" /\ children[c].mon = "wait"}

\* C1: every running instance has exactly one live child, and every stopped
\* or failed instance has none.
C1_OneLiveChild ==
    \A i \in Ids :
        /\ (Present(i) /\ instances[i].status = "running")
              => Cardinality(Unreaped(i)) = 1
        /\ (Present(i) /\ instances[i].status \in {"stopped", "error"})
              => Cardinality(Unreaped(i)) = 0

\* C2: once a stop of a running instance has returned, the instance is
\* stopped and stays so through every later step of the reaper of the child
\* that was stopped (no move to error, no restart).
C2_StopIsFinal ==
    [][\A c \in Children :
          LET i == children[c].owner
          IN  (/\ children[c].stopped
               /\ children'[c].mon # children[c].mon
               /\ Present(i)
               /\ instances[i].status = "stopped")
              => instances'[i].status = "stopped"]_vars

C4_UpdateGuard ==
    [][\A i \in Ids :
          (/\ Present(i)
           /\ instances[i].status = "running"
           /\ result'[1] = "update"
           /\ result'[2] = i)
          => /\ result'[3] = "InstanceRunning"
             /\ instances'[i].pipeline = instances[i].pipeline
             /\ instances'[i].modified_at = instances[i].modified_at
             /\ disk' = disk]_vars

C4_Witness ==
    \E i \in Ids :
        /\ result = <<"update", i, "InstanceRunning">>
        /\ instances[i].status = "running"
        /\ disk[i].pipeline = instances[i].pipeline

\* The non-zero return codes of a child.
Failures == (ExitCodes \cup {KillCode}) \ {0}

\* C5: on a non-zero exit with a message that is transient and not fatal, the
\* reaper counts a retry and goes on to reissue start exactly when
\* auto_restart is set and retry_count < max_retries; in every other case of a
\* non-zero exit the status becomes error.
C5_RetryDecision ==
    [][\A c \in Children, code \in Failures, e \in Messages :
          LET i == children[c].owner
              inst == instances[i]
          IN  (MonitorExit(c, code, e) /\ Present(i))
              => IF /\ is_transient(e) /\ ~is_fatal(e)
                    /\ inst.auto_restart
                    /\ inst.retry_count < inst.max_retries
                 THEN /\ instances'[i].retry_count = inst.retry_count + 1
                      /\ instances'[i].status = inst.status
                      /\ children'[c].mon = "sleep"
                 ELSE /\ instances'[i].status = "error"
                      /\ children'[c].mon # "sleep"]_vars

C5_Witness ==
    \E c \in Children :
        /\ children[c].mon = "sleep"
        /\ instances[children[c].owner].retry_count = 1
        /\ instances[children[c].owner].max_retries = 2

\* C6: on a non-zero exit with a message that matches a fatal pattern the
\* status becomes error and no retry is counted or issued, whatever
\* auto_restart, retry_count and the transient patterns say.
C6_FatalIsFinal ==
    [][\A c \in Children, code \in Failures, e \in Messages :
          LET i == children[c].owner
          IN  (MonitorExit(c, code, e) /\ Present(i) /\ is_fatal(e))
              => /\ instances'[i].status = "error"
                 /\ instances'[i].retry_count = instances[i].retry_count
                 /\ children'[c].mon # "sleep"
                 /\ nextChild' = nextChild]_vars

C6_Witness ==
    \E i \in Ids :
        /\ Present(i)
        /\ instances[i].status = "error"
        /\ is_fatal(instances[i].error_message)
        /\ is_transient(instances[i].error_message)
        /\ instances[i].auto_restart
        /\ instances[i].retry_count < instances[i].max_retries
        /\ notified[i] = <<"starting", "running", "error">>

\* The reapers of instance i that are in their retry delay or inside the
\* start they reissued.
Retrying(i) ==
    {c \in Children : children[c].owner = i
                      /\ children[c].mon \in {"sleep", "start"}}

\* C7: with auto_restart and max_retries = 2, once the first child has failed
\* with a transient message and the retry is over with the instance running
\* (retry_count 1, nothing but starting and running notified, first starting
\* then running), the notifications are starting, running, starting, running.
C7_RetryNotifications ==
    \A i \in Ids :
        (/\ Present(i)
         /\ instances[i].auto_restart
         /\ instances[i].max_retries = 2
         /\ instances[i].retry_count = 1
         /\ instances[i].status = "running"
         /\ Retrying(i) = {}
         /\ Len(notified[i]) >= 2
         /\ SubSeq(notified[i], 1, 2) = <<"starting", "running">>
         /\ \A k \in 1..Len(notified[i]) :
               notified[i][k] \in {"starting", "running"})
        => notified[i] = <<"starting", "running", "starting", "running">>

\* C8: retry_count never exceeds max_retries.
C8_RetryBound ==
    \A i \in Ids :
        Present(i) => instances[i].retry_count <= instances[i].max_retries

\* The auto instances in the table and the records of auto instances in the
\* store.
AutoInstances ==
    {i \in Ids : /\ Present(i)
                 /\ instances[i].instance_type = "auto"
                 /\ instances[i].name = AutoName}

AutoRecords ==
    {i \in Ids : disk[i] \notin {NoRecord, Partial} /\ disk[i].name = AutoName}

IsPrefix(a, b) == Len(a) <= Len(b) /\ SubSeq(b, 1, Len(a)) = a

\* The statuses delivered for instance i to the k-th registered listener.
Delivered(k, i) ==
    IF \E j \in 1..(k - 1) : status_callbacks[j] = "slow"
    THEN heard[i] ELSE notified[i]

\* The values assigned to the status of instance i, in order: each assignment
\* is followed at once by _notify_status_change, which calls the first
\* listener before anything else can run.
Assigned(i) == notified[i]

\* C11: for each listener and each id, the statuses delivered so far are, in
\* order and without gap or duplicate, the first values assigned to the
\* instance's status.
C11_ListenerOrder ==
    \A k \in 1..Len(status_callbacks), i \in Ids :
        (Delivered(k, i) # Overflow /\ Assigned(i) # Overflow)
        => IsPrefix(Delivered(k, i), Assigned(i))

\* C12: a start request spawns a child only when it finds the instance
\* stopped or in error.
C12_StartGuard ==
    [][\A i \in Ids :
          StartInstance(i) => instances[i].status \in {"stopped", "error"}]_vars

\* C13: update_pipeline on an instance whose status is not stopped or error
\* is rejected and leaves the pipeline text and the store as they were.
C13_EditGuard ==
    [][\A i \in Ids :
          (/\ Present(i)
           /\ instances[i].status \notin {"stopped", "error"}
           /\ result'[1] = "update"
           /\ result'[2] = i)
          => /\ result'[3] = "InstanceRunning"
             /\ instances'[i].pipeline = instances[i].pipeline
             /\ disk' = disk
             /\ history' = history]_vars

\* C14: every live child has a reaper waiting for it, or a stop_instance
\* waiting for it, or is the process recorded for an instance of the table,
\* through which a stop request reaches it.
C14_ChildReachable ==
    \A c \in Children :
        children[c].state = "alive"
        => \/ children[c].mon \in {"wait", "notify"}
           \/ \E s \in stops : s.c = c
           \/ /\ Present(children[c].owner)
              /\ processes[children[c].owner] = c

\* C15: once stop_all has returned, none of the instances it found running
\* is running or being started, unless a client has asked to start it since.
C15_StopAllIsFinal ==
    halting.phase = "returned"
    => \A i \in halting.running \ halting.restarted :
          Present(i) => instances[i].status \notin {"starting", "running"}

\* The file names of a history directory.
Files(hist) == {hist[k].file : k \in 1..Len(hist)}

C17_HistoryGrows ==
    [][\A i \in Ids :
          (/\ result'[1] = "update" /\ result'[2] = i /\ result'[3] = "ok"
           /\ disk[i] # NoRecord
           /\ Len(history[i]) < max_history_files)
          => /\ Len(history'[i]) = Len(history[i]) + 1
             /\ history'[i][1].content = disk[i]
             /\ SubSeq(history'[i], 2, Len(history'[i])) = history[i]
             /\ Len(get_instance_history(i)') >= 1
             /\ get_instance_history(i)'[1] = disk[i]]_vars

\* C18: the current record of an instance is never a partially written file.
C18_NoPartialRecord == \A i \in Ids : disk[i] # Partial

\* C19: an import whose embedded id exists in the store returns another id,
\* stores the record under it and loads it into the table, and leaves the
\* current record, the history and the instance of the embedded id as they
\* were.
C19_ImportCollision ==
    [][\A t \in ImportTexts, j \in Ids :
          (ImportInstance(t, j) /\ disk[j] # NoRecord)
          => LET new_id == result'[2]
             IN  /\ new_id # j
                 /\ disk[new_id] = NoRecord
                 /\ disk'[new_id] # NoRecord
                 /\ [disk'[new_id] EXCEPT !.name = t.name,
                                          !.modified_at = t.modified_at] = t
                 /\ instances'[new_id] = from_dict(disk'[new_id])
                 /\ disk'[j] = disk[j]
                 /\ history'[j] = history[j]
                 /\ instances'[j] = instances[j]]_vars

C19_Witness ==
    \E j \in Ids :
        /\ result[1] = "import"
        /\ result[2] # j
        /\ disk[result[2]] # NoRecord
        /\ disk[result[2]].name = "t (copy)"
        /\ disk[j] # NoRecord
        /\ history[j] # NoHistory

\* C20: after a daemon start every stored record is in the table with its
\* configuration fields as stored and its runtime fields at their defaults.
C20_LoadResets ==
    [][result' = <<"restart", None, "ok">>
       => \A i \in Ids :
             disk[i] \notin {NoRecord, Partial}
             => instances'[i] =
                  [from_dict(disk[i]) EXCEPT
                      !.status = "stopped", !.pid = None,
                      !.error_message = NoMessage, !.retry_count = 0,
                      !.uptime_start = None]]_vars

\* C21: the import of the text exported for an instance stores a record that
\* equals the exported one except for modified_at, and puts an instance in the
\* table that is stopped and has no pid.
C21_ExportImport ==
    [][\A i \in Ids :
          ImportExported(i)
          => LET new_id == result'[2]
             IN  /\ [disk'[new_id] EXCEPT !.modified_at = disk[i].modified_at]
                    = disk[i]
                 /\ instances'[new_id].status = "stopped"
                 /\ instances'[new_id].pid = None]_vars

\* No supervisor operation is in flight: no child is spawning, running or
\* waiting for its reaper, no stop is waiting and the daemon is not shutting
\* down.
Quiescent ==
    /\ \A c \in Children : children[c] = NoChild
    /\ stops = {}
    /\ halting = Idle

\* The configuration fields of an instance or of its stored record: name,
\* pipeline, recovery, recording and the two timestamps.
ConfigFields(r) ==
    [name |-> r.name, pipeline |-> r.pipeline, auto_restart |-> r.auto_restart,
     max_retries |-> r.max_retries, location |-> r.location,
     created_at |-> r.created_at, modified_at |-> r.modified_at]

\* C22: in every quiescent state the stored current record of every instance
\* in the table equals the instance in memory on all configuration fields.
C22_DiskMatchesMemory ==
    Quiescent
    => \A i \in Ids :
          Present(i)
          => /\ disk[i] \notin {NoRecord, Partial}
             /\ ConfigFields(disk[i]) = ConfigFields(instances[i])

\* C23: when the store fails to write the record during update_pipeline, the
\* operation does not report success to its caller, and the change made in
\* memory is kept.
C23_FailureReported ==
    [][\A i \in Ids, p \in UserPipelines :
          UpdatePipelineFails(i, p)
          => /\ result'[3] # "ok"
             /\ instances'[i].pipeline = p]_vars

\* C24: after a signal_ready edge of the capture input the time of the stable
\* signal is remembered and one TX check is scheduled, which is what later
\* emits the ready edge and starts the managed instance.
C24_ReadySchedulesCheck ==
    [][SignalReady => (rx_stable' /\ tx_check' = "pending")]_vars

\* C26: when on_passthrough_ready runs with autostart_on_ready true and the
\* managed instance is missing (never created, or its remembered id names no
\* instance of the table) or stopped, afterwards the remembered id names an
\* auto instance of the table on which start has been requested; when
\* autostart_on_ready is false the table is left as it is.
C26_ReadyRecreates ==
    [][PassthroughReady
       => IF config.set /\ config.autostart_on_ready
          THEN (\/ instance_id = None
                \/ ~Present(instance_id)
                \/ instances[instance_id].status = "stopped")
               => /\ instance_id' # None
                  /\ instances'[instance_id'].status = "starting"
                  /\ instances'[instance_id'].instance_type = "auto"
          ELSE instances' = instances]_vars

C28_RangeChecked ==
    [][\A cfg \in Requests :
          (/\ SetAutoInstanceConfig(cfg)
           /\ ~(cfg.rc_mode \in {0, 1, 2} /\ cfg.srt_port \in 1..65535))
          => /\ result'[3] = "InvalidInput"
             /\ config' = config
             /\ instances' = instances
             /\ blob' = blob]_vars

\* C29: an instance has a pid only while it is starting, running or stopping:
\* in every state an instance whose status is stopped or error has no pid.
C29_PidOnlyWhileLive ==
    \A i \in Ids :
        (Present(i) /\ instances[i].status \in {"stopped", "error"})
        => instances[i].pid = None

\* C30: a composite passthrough state is emitted only when its can_capture
\* or its resolution differs from the state emitted before it, and the
\* can_capture it carries is rx_stable and tx_ready and tx_connected at the
\* time of the emission.
C30_EdgeOnChange ==
    [][emitted' # emitted
       => LET n == Len(emitted')
              e == emitted'[n]
          IN  /\ n = Len(emitted) + 1
              /\ emitted = SubSeq(emitted', 1, n - 1)
              /\ n > 1 => \/ e.can_capture # emitted[n - 1].can_capture
                          \/ e.resolution # emitted[n - 1].resolution
              /\ e.can_capture = (/\ rx_stable'
                                  /\ tx_status'.set /\ tx_status'.ready
                                  /\ tx_status'.set /\ tx_status'.connected)]_vars

\* The signal has been lost twice and the state was emitted for the first
\* loss only.
C30_Witness ==
    /\ evaluations = 2
    /\ Len(emitted) = 1
    /\ ~locked

\* The last two notifications of instance i are those of a stop that has
\* completed.
StopCompleted(i) ==
    LET n == Len(notified[i])
    IN  /\ n >= 2
        /\ notified[i][n - 1] = "stopping"
        /\ notified[i][n] = "stopped"

\* C35: when a stop of the instance has completed while the reaper of its
\* failed child was in the retry delay, the retry spawns no child and the
\* instance stays stopped.
C35_StopCancelsRetry ==
    [][\A c \in Children :
          LET i == children[c].owner
          IN  (/\ RetryStart(c)
               /\ Present(i)
               /\ instances[i].status = "stopped"
               /\ StopCompleted(i))
              => /\ nextChild' = nextChild
                 /\ instances'[i].status = "stopped"]_vars

\* C36: whenever an instance is running and has a live child, the process
\* table maps its id to a live child of that instance, so that a stop
\* reaches it: the cleanup of an earlier child's reaper does not remove the
\* entry of a child spawned later for the same id.
C36_ProcessTableCurrent ==
    \A i \in Ids :
        (/\ Present(i)
         /\ instances[i].status = "running"
         /\ \E c \in Children : children[c].owner = i
                                 /\ children[c].state = "alive")
        => /\ processes[i] # None
           /\ children[processes[i]].owner = i
           /\ children[processes[i]].state = "alive"

\* C37: once the reaper of an instance has decided on an automatic restart
\* after a transient failure, the instance eventually leaves status running:
\* the restarts are bounded and end in status error, unless a client stops
\* the instance first.
C37_RetriesEndInError ==
    \A i \in Ids :
        (\E c \in Children : children[c].owner = i /\ children[c].mon = "sleep")
        ~> (instances[i].status # "running")

\* A step of _on_hdmi_signal_lost: its call by the monitor, or its loop going
\* on after a stop_instance it awaited has returned.
LostHandlerStep ==
    \/ SignalLost
    \/ \E s \in stops : StopReturns(s) /\ s.cont \in {"lost_eval", "lost_loop"}

\* The instances the loop of the handler has in front of it at a step: all
\* of the table when the loop starts, and those of its list behind the one
\* it waited for when it goes on.
InFront(i) ==
    IF monitor.phase = "polling" THEN Present(i)
    ELSE \E s \in stops : /\ s.cont \in {"lost_eval", "lost_loop"}
                          /\ IF s.cont = "lost_eval" THEN Present(i)
                             ELSE i \in monitor.rest /\ i > s.id

C33_DebouncedEdges ==
    [][/\ \A first, second \in Statuses :
            Poll(first, second)
            => /\ (reported' # reported /\ result'[1] = "signal_ready")
                  => /\ ~(last_status.set /\ last_status.signal_locked)
                     /\ second.signal_locked
                     /\ last_status' = second
               /\ evaluations' # evaluations
                  => /\ last_status.set /\ last_status.signal_locked
                     /\ ~second.signal_locked
                     /\ IF monitor'.phase = "polling"
                        THEN last_status' = second
                        ELSE /\ monitor'.status = second
                             /\ last_status' = last_status
               /\ (/\ last_status.set
                   /\ second.signal_locked = last_status.signal_locked
                   /\ second.mode = last_status.mode)
                  => UNCHANGED vars
       /\ \A s \in stops :
            (/\ StopReturns(s)
             /\ monitor.phase = "handling"
             /\ monitor'.phase = "polling")
            => /\ last_status.signal_locked
               /\ ~monitor.status.signal_locked
               /\ last_status' = monitor.status]_vars

\* The signal has locked, unlocked and locked again, and the monitor has
\* called ready, lost and ready.
C33_Witness ==
    /\ reported = 3
    /\ evaluations = 1
    /\ locked
    /\ result[1] = "signal_ready"

\* C34: the monitor is never held up by a subscriber: in every state it is
\* between two polls, not waiting inside a handler for a stop_instance.
C34_PollNeverBlocked == monitor.phase = "polling"

====
